---- MODULE Spec2Model ----
(***************************************************************************)
(* Producer/consumer coordination core of ProducerConsumer.h: the Queue,   *)
(* its SafeQueue and SizeLimitedQueue decorators, and the three            *)
(* ProduceConsumeStrategy variants (BruteForce = Spin, Sleep = Sleep-Poll, *)
(* Wait = Wait-Signal) run by producer and consumer threads that share one *)
(* strategy object bound to SizeLimitedQueue(SafeQueue(Queue)).            *)
(***************************************************************************)
EXTENDS Integers, Sequences, FiniteSets

\* ---------------------------------------------------------------- bounds
MaxProduce == 3     \* produce calls made in a run
MaxConsume == 2     \* consume calls made in a run
MaxCap == 2         \* largest capacity a SizeLimitedQueue is built with

\* The threads that call into the shared strategy. ProducerConsumerTester::test
\* starts one producer and one consumer thread; a second producer is added so
\* that producers also contend with each other.
Producers == {1, 2}
Consumers == {3}
Threads == Producers \cup Consumers
NoThread == 0
Strategies == {"Spin", "Sleep", "Wait"}
\* what an int or bool that was never assigned may hold
IndeterminateBool == BOOLEAN
IndeterminateInt == {0, 1}

VARIABLES
    strategy,          \* which ProduceConsumeStrategy subclass the threads share
    maxSize,           \* SizeLimitedQueue::maxSize
    queue,             \* Queue::queue, front first
    queueLock,         \* ProduceConsumeStrategy::queueLock: its owner, or NoThread
    stop,              \* ProduceConsumeStrategy::stop
    onProduceToEmpty,  \* threads blocked in onProduceToEmpty.wait
    onConsumeFromFull, \* threads blocked in onConsumeFromFull.wait
    pc,                \* each thread's position inside produce / consume
    value,             \* produce's argument
    produced,          \* BruteForceProduceConsume::produce's local
    consumed,          \* BruteForceProduceConsume::consume's local
    consumedValue,     \* consume's local, and what it returns
    counterProducer,   \* the next value a producer passes to produce
    counterConsumer,   \* the number of consume calls made so far
    ins,               \* history: elements the current produce call added
    rem,               \* history: elements the current consume call removed
    sawStop,           \* history: the current call read stop as true
    lateTries,         \* history: queue attempts made with stop set since the latest setStop,
                       \*          counted up to 2
    lateNaps,          \* history: sleep() calls made with stop set since the latest setStop,
                       \*          counted up to 2
    waited,            \* history: the current call has blocked on a condition variable
    nIns,              \* history: pQueue->produce calls that returned true
    nRem,              \* history: pQueue->consume calls that returned true
    lastStopArg,       \* history: argument of the latest setStop call (false before any)
    chain,             \* the class of the object pQueue points to
    log,               \* history: the calls made directly on the queue object, in order
    given,             \* history: the values the queue has accepted
    taken              \* history: how often each value was returned by a consume

shared == <<strategy, maxSize, queue, queueLock, stop, onProduceToEmpty, onConsumeFromFull>>
locals == <<value, produced, consumed, consumedValue, counterProducer, counterConsumer>>
hist == <<ins, rem, sawStop, lateTries, lateNaps, waited, nIns, nRem, lastStopArg>>
extra == <<chain, log>>
trade == <<given, taken>>
vars == <<shared, pc, locals, hist, extra, trade>>

\* ------------------------------------------------------------ Queue Core
Queue_produce(q, v) == [ok |-> TRUE, q |-> Append(q, v)]

\* a variant that reads the element and leaves the container alone
Queue_consume_NoPop(q) == [ok |-> TRUE, q |-> q, value |-> q[Len(q)]]

\* value = queue.back(); queue.pop(): reads the back, drops the front.
\* Only defined on a non-empty container.
Queue_consume(q) == [ok |-> TRUE, q |-> Tail(q), value |-> q[Len(q)]]

\* a variant that keeps the default of IQueue::empty
Queue_empty_Default(q) == TRUE

Queue_empty(q) == q = <<>>

Queue_size(q) == Len(q)

IQueue_full == FALSE

\* -------------------------------------------------------------- decorators
\* a variant that reports success on an empty queue
SafeQueue_consume_ReportsSuccess(q, old) ==
    IF Queue_empty(q) THEN [ok |-> TRUE, q |-> q, value |-> old]
    ELSE Queue_consume(q)

\* old is the caller's int&, left alone when nothing is removed
SafeQueue_consume(q, old) ==
    IF Queue_empty(q) THEN [ok |-> FALSE, q |-> q, value |-> old]
    ELSE Queue_consume(q)

SizeLimitedQueue_full_Off(q, cap) == Queue_size(q) > cap \/ IQueue_full

SizeLimitedQueue_full(q, cap) == Queue_size(q) >= cap \/ IQueue_full

SizeLimitedQueue_produce_NoCheck(q, v, cap) == Queue_produce(q, v)

SizeLimitedQueue_produce(q, v, cap) ==
    IF SizeLimitedQueue_full(q, cap) THEN [ok |-> FALSE, q |-> q]
    ELSE Queue_produce(q, v)

\* pQueue of the strategy, dispatched on the class of the object: either
\* SizeLimitedQueue(SafeQueue(Queue)) or the Queue itself
pQueue_produce(q, v, cap) ==
    IF chain = "Queue" THEN Queue_produce(q, v)
    ELSE SizeLimitedQueue_produce(q, v, cap)
pQueue_consume(q, old) ==
    IF chain = "Queue" THEN Queue_consume(q)
    ELSE SafeQueue_consume(q, old)
pQueue_empty(q) == Queue_empty(q)
pQueue_full(q, cap) ==
    IF chain = "Queue" THEN IQueue_full
    ELSE SizeLimitedQueue_full(q, cap)

\* ------------------------------------------------ ProduceConsumeStrategy
\* std::mutex: a lock succeeds only while nobody owns the mutex
MutexCanLock_PerThread(m) == TRUE

MutexCanLock(m) == m = NoThread

\* setStop(bool stop) { this->stop = stop; }: the value stop holds afterwards
setStop_AlwaysSet(arg) == TRUE

setStop(arg) == arg

\* while (!stop && !produced) and while (!stop && !consumed)
BruteForce_continue_NoFlag(s, flag) == ~s

BruteForce_continue(s, flag) == ~s /\ ~flag

\* while (!stop)
Sleep_continue_Forever(s) == TRUE

Sleep_continue(s) == ~s

\* notify_one: one of the waiting threads, or nobody when none waits
NotifyOne(cv) == IF cv = {} THEN {NoThread} ELSE cv

\* Everything but the configuration: an empty queue, no call made yet
InitRest ==
    /\ queue = <<>>
    /\ queueLock = NoThread
    /\ stop = FALSE
    /\ onProduceToEmpty = {}
    /\ onConsumeFromFull = {}
    /\ pc = [t \in Threads |-> "idle"]
    /\ value = [p \in Producers |-> 0]
    /\ produced = [p \in Producers |-> FALSE]
    /\ consumed = [c \in Consumers |-> FALSE]
    /\ consumedValue = [c \in Consumers |-> 0]
    /\ counterProducer = 0
    /\ counterConsumer = 0
    /\ ins = [p \in Producers |-> 0]
    /\ rem = [c \in Consumers |-> 0]
    /\ sawStop = [t \in Threads |-> FALSE]
    /\ lateTries = [t \in Threads |-> 0]
    /\ lateNaps = [t \in Threads |-> 0]
    /\ waited = [t \in Threads |-> FALSE]
    /\ nIns = 0
    /\ nRem = 0
    /\ lastStopArg = FALSE
    /\ log = <<>>
    /\ given = {}
    /\ taken = [v \in 0..MaxProduce |-> 0]

\* One strategy object, bound to an empty SizeLimitedQueue(SafeQueue(Queue)) of
\* a positive capacity; stop(false) is the constructor's initialiser.
Init ==
    /\ strategy \in Strategies
    /\ maxSize \in 1..MaxCap
    /\ chain = "SizeLimitedQueue"
    /\ InitRest

\* a call begins: its history starts afresh
BeginCall(t) ==
    /\ sawStop' = [sawStop EXCEPT ![t] = FALSE]
    /\ lateTries' = [lateTries EXCEPT ![t] = 0]
    /\ lateNaps' = [lateNaps EXCEPT ![t] = 0]
    /\ waited' = [waited EXCEPT ![t] = FALSE]

\* the producer thread calls pc.produce(counterProducer++)
StartProduce(p) ==
    /\ pc[p] = "idle"
    /\ counterProducer < MaxProduce
    /\ value' = [value EXCEPT ![p] = counterProducer]
    /\ counterProducer' = counterProducer + 1
    /\ produced' = [produced EXCEPT ![p] = FALSE]
    /\ pc' = [pc EXCEPT ![p] = IF strategy = "Wait" THEN "lock" ELSE "check"]
    /\ BeginCall(p)
    /\ ins' = [ins EXCEPT ![p] = 0]
    /\ UNCHANGED <<shared, consumed, consumedValue, counterConsumer, rem, nIns, nRem, lastStopArg>>
    /\ UNCHANGED extra
    /\ UNCHANGED trade

\* the consumer thread calls pc.consume(); BruteForce leaves consumed unassigned
StartConsume(c) ==
    /\ pc[c] = "idle"
    /\ counterConsumer < MaxConsume
    /\ counterConsumer' = counterConsumer + 1
    /\ consumedValue' = [consumedValue EXCEPT ![c] = 0]
    /\ \E garbage \in IndeterminateBool :
         consumed' = [consumed EXCEPT
                        ![c] = IF strategy = "Spin" THEN garbage ELSE FALSE]
    /\ pc' = [pc EXCEPT ![c] = IF strategy = "Wait" THEN "lock" ELSE "check"]
    /\ BeginCall(c)
    /\ rem' = [rem EXCEPT ![c] = 0]
    /\ UNCHANGED <<shared, value, produced, counterProducer, ins, nIns, nRem, lastStopArg>>
    /\ UNCHANGED extra
    /\ UNCHANGED trade

\* the loop condition of BruteForce and Sleep, produce and consume alike.
\* Sleep's consume leaves its loop without a return statement: what the caller
\* then reads as the result is indeterminate.
LoopFlag(t) == IF t \in Producers THEN produced[t] ELSE consumed[t]

Check(t) ==
    /\ pc[t] = "check"
    /\ strategy \in {"Spin", "Sleep"}
    /\ LET cont == IF strategy = "Spin" THEN BruteForce_continue(stop, LoopFlag(t))
                   ELSE Sleep_continue(stop)
       IN /\ pc' = [pc EXCEPT ![t] = IF cont THEN "lock" ELSE "ret"]
          /\ IF t \in Consumers /\ strategy = "Sleep" /\ ~cont
             THEN \E g \in IndeterminateInt :
                    consumedValue' = [consumedValue EXCEPT ![t] = g]
             ELSE UNCHANGED consumedValue
    /\ sawStop' = [sawStop EXCEPT ![t] = @ \/ stop]
    /\ UNCHANGED <<shared, value, produced, consumed, counterProducer, counterConsumer>>
    /\ UNCHANGED <<ins, rem, lateTries, lateNaps, waited, nIns, nRem, lastStopArg>>
    /\ UNCHANGED extra
    /\ UNCHANGED trade

\* std::unique_lock<std::mutex> locker(queueLock), and the re-lock of a woken wait
Lock(t) ==
    /\ pc[t] = "lock"
    /\ MutexCanLock(queueLock)
    /\ queueLock' = t
    /\ pc' = [pc EXCEPT ![t] = IF strategy = "Wait" THEN "pred" ELSE "op"]
    /\ UNCHANGED <<strategy, maxSize, queue, stop, onProduceToEmpty, onConsumeFromFull>>
    /\ UNCHANGED <<locals, hist>>
    /\ UNCHANGED extra
    /\ UNCHANGED trade

\* locker leaves scope: at the end of a loop body, or on the way out of the call
Unlock(t) ==
    /\ pc[t] \in {"unlock", "unlock_ret"}
    /\ queueLock' = NoThread
    /\ pc' = [pc EXCEPT ![t] = IF pc[t] = "unlock" THEN "check" ELSE "ret"]
    /\ UNCHANGED <<strategy, maxSize, queue, stop, onProduceToEmpty, onConsumeFromFull>>
    /\ UNCHANGED <<locals, hist>>
    /\ UNCHANGED extra
    /\ UNCHANGED trade

\* BruteForce and Sleep produce: pQueue->produce(value) under the lock
ProduceOp(p) ==
    /\ pc[p] = "op"
    /\ p \in Producers
    /\ LET r == pQueue_produce(queue, value[p], maxSize)
       IN /\ queue' = r.q
          /\ nIns' = IF r.ok THEN nIns + 1 ELSE nIns
          /\ given' = IF r.ok THEN given \cup {value[p]} ELSE given
          /\ ins' = [ins EXCEPT ![p] = @ + Len(r.q) - Len(queue)]
          /\ IF strategy = "Spin"
             THEN /\ produced' = [produced EXCEPT ![p] = r.ok]
                  /\ pc' = [pc EXCEPT ![p] = "unlock"]
             ELSE /\ UNCHANGED produced
                  /\ pc' = [pc EXCEPT ![p] = IF r.ok THEN "unlock_ret" ELSE "sleep"]
    /\ lateTries' = [lateTries EXCEPT ![p] = IF stop /\ @ < 2 THEN @ + 1 ELSE @]
    /\ UNCHANGED <<strategy, maxSize, queueLock, stop, onProduceToEmpty, onConsumeFromFull>>
    /\ UNCHANGED <<value, consumed, consumedValue, counterProducer, counterConsumer>>
    /\ UNCHANGED <<rem, sawStop, lateNaps, waited, nRem, lastStopArg>>
    /\ UNCHANGED extra
    /\ UNCHANGED taken

\* BruteForce and Sleep consume: pQueue->consume(consumedValue) under the lock
ConsumeOp(c) ==
    /\ pc[c] = "op"
    /\ c \in Consumers
    /\ IF chain = "Queue" /\ Queue_empty(queue)
       THEN \* Queue::consume on an empty std::queue: back() and pop() are
            \* undefined; the value read is indeterminate and the call is
            \* followed no further
            /\ \E v \in IndeterminateInt :
                  consumedValue' = [consumedValue EXCEPT ![c] = v]
            /\ pc' = [pc EXCEPT ![c] = "ub"]
            /\ UNCHANGED <<queue, nRem, rem, consumed, taken>>
       ELSE LET r == pQueue_consume(queue, consumedValue[c])
            IN /\ queue' = r.q
               /\ consumedValue' = [consumedValue EXCEPT ![c] = r.value]
               /\ nRem' = IF r.ok THEN nRem + 1 ELSE nRem
               /\ taken' = IF r.ok THEN [taken EXCEPT ![r.value] = @ + 1] ELSE taken
               /\ rem' = [rem EXCEPT ![c] = @ + Len(queue) - Len(r.q)]
               /\ IF strategy = "Spin"
                  THEN /\ consumed' = [consumed EXCEPT ![c] = r.ok]
                       /\ pc' = [pc EXCEPT ![c] = "unlock"]
                  ELSE /\ UNCHANGED consumed
                       /\ pc' = [pc EXCEPT ![c] =
                                   IF r.ok THEN "unlock_ret" ELSE "sleep"]
    /\ lateTries' = [lateTries EXCEPT ![c] = IF stop /\ @ < 2 THEN @ + 1 ELSE @]
    /\ UNCHANGED <<strategy, maxSize, queueLock, stop, onProduceToEmpty, onConsumeFromFull>>
    /\ UNCHANGED <<value, produced, counterProducer, counterConsumer>>
    /\ UNCHANGED <<ins, sawStop, lateNaps, waited, nIns, lastStopArg>>
    /\ UNCHANGED extra
    /\ UNCHANGED given

\* Sleep: else sleep(); runs inside the loop body, while locker is alive
SleepCall(t) ==
    /\ pc[t] = "sleep"
    /\ pc' = [pc EXCEPT ![t] = "unlock"]
    /\ lateNaps' = [lateNaps EXCEPT ![t] = IF stop /\ @ < 2 THEN @ + 1 ELSE @]
    /\ UNCHANGED <<shared, locals>>
    /\ UNCHANGED <<ins, rem, sawStop, lateTries, waited, nIns, nRem, lastStopArg>>
    /\ UNCHANGED extra
    /\ UNCHANGED trade

\* a false predicate: wait(locker) releases the mutex and blocks on cv
BlockOn(t) ==
    /\ queueLock' = NoThread
    /\ onProduceToEmpty' = onProduceToEmpty \cup {t}
    /\ pc' = [pc EXCEPT ![t] = "wait"]
    /\ waited' = [waited EXCEPT ![t] = TRUE]

\* Wait produce: one evaluation of the predicate of onProduceToEmpty.wait
ProducePred(p) ==
    /\ pc[p] = "pred"
    /\ p \in Producers
    /\ sawStop' = [sawStop EXCEPT ![p] = @ \/ stop]
    /\ IF stop
       THEN /\ pc' = [pc EXCEPT ![p] = "unlock_ret"]
            /\ UNCHANGED <<queue, queueLock, onProduceToEmpty, nIns, ins, waited, lateTries, given>>
       ELSE LET wasEmpty == pQueue_empty(queue)
                r == pQueue_produce(queue, value[p], maxSize)
            IN /\ queue' = r.q
               /\ nIns' = IF r.ok THEN nIns + 1 ELSE nIns
               /\ given' = IF r.ok THEN given \cup {value[p]} ELSE given
               /\ ins' = [ins EXCEPT ![p] = @ + Len(r.q) - Len(queue)]
               /\ lateTries' = lateTries
               /\ IF r.ok
                  THEN /\ \E w \in (IF wasEmpty THEN NotifyOne(onProduceToEmpty)
                                    ELSE {NoThread}) :
                            /\ onProduceToEmpty' = onProduceToEmpty \ {w}
                            /\ pc' = [t \in Threads |->
                                        IF t = p THEN "unlock_ret"
                                        ELSE IF t = w THEN "lock" ELSE pc[t]]
                       /\ UNCHANGED <<queueLock, waited>>
                  ELSE BlockOn(p)
    /\ UNCHANGED <<strategy, maxSize, stop, onConsumeFromFull, locals>>
    /\ UNCHANGED <<rem, lateNaps, nRem, lastStopArg>>
    /\ UNCHANGED extra
    /\ UNCHANGED taken

\* Wait consume: one evaluation of the predicate of onProduceToEmpty.wait;
\* a removal from a full queue notifies onConsumeFromFull
ConsumePred(c) ==
    /\ pc[c] = "pred"
    /\ c \in Consumers
    /\ sawStop' = [sawStop EXCEPT ![c] = @ \/ stop]
    /\ IF stop
       THEN /\ pc' = [pc EXCEPT ![c] = "unlock_ret"]
            /\ UNCHANGED <<queue, queueLock, onProduceToEmpty, onConsumeFromFull>>
            /\ UNCHANGED <<consumedValue, nRem, rem, waited, taken>>
       ELSE LET wasFull == pQueue_full(queue, maxSize)
                r == pQueue_consume(queue, consumedValue[c])
            IN /\ queue' = r.q
               /\ consumedValue' = [consumedValue EXCEPT ![c] = r.value]
               /\ nRem' = IF r.ok THEN nRem + 1 ELSE nRem
               /\ taken' = IF r.ok THEN [taken EXCEPT ![r.value] = @ + 1] ELSE taken
               /\ rem' = [rem EXCEPT ![c] = @ + Len(queue) - Len(r.q)]
               /\ IF r.ok
                  THEN /\ \E w \in (IF wasFull THEN NotifyOne(onConsumeFromFull)
                                    ELSE {NoThread}) :
                            /\ onConsumeFromFull' = onConsumeFromFull \ {w}
                            /\ pc' = [t \in Threads |->
                                        IF t = c THEN "unlock_ret"
                                        ELSE IF t = w THEN "lock" ELSE pc[t]]
                       /\ UNCHANGED <<queueLock, onProduceToEmpty, waited>>
                  ELSE /\ BlockOn(c)
                       /\ UNCHANGED onConsumeFromFull
    /\ UNCHANGED <<strategy, maxSize, stop, value, produced, consumed, counterProducer, counterConsumer>>
    /\ UNCHANGED <<ins, lateTries, lateNaps, nIns, lastStopArg>>
    /\ UNCHANGED extra
    /\ UNCHANGED given

\* a condition variable may wake a waiter nobody notified
SpuriousWakeup(t) ==
    /\ pc[t] = "wait"
    /\ t \in onProduceToEmpty \cup onConsumeFromFull
    /\ onProduceToEmpty' = onProduceToEmpty \ {t}
    /\ onConsumeFromFull' = onConsumeFromFull \ {t}
    /\ pc' = [pc EXCEPT ![t] = "lock"]
    /\ UNCHANGED <<strategy, maxSize, queue, queueLock, stop, locals, hist>>
    /\ UNCHANGED extra
    /\ UNCHANGED trade

\* produce / consume returns to its caller: the call's locals, and the history
\* kept of the call, end with it
Return(t) ==
    /\ pc[t] = "ret"
    /\ pc' = [pc EXCEPT ![t] = "idle"]
    /\ IF t \in Producers
       THEN /\ value' = [value EXCEPT ![t] = 0]
            /\ produced' = [produced EXCEPT ![t] = FALSE]
            /\ ins' = [ins EXCEPT ![t] = 0]
            /\ UNCHANGED <<consumed, consumedValue, rem>>
       ELSE /\ consumed' = [consumed EXCEPT ![t] = FALSE]
            /\ consumedValue' = [consumedValue EXCEPT ![t] = 0]
            /\ rem' = [rem EXCEPT ![t] = 0]
            /\ UNCHANGED <<value, produced, ins>>
    /\ sawStop' = [sawStop EXCEPT ![t] = FALSE]
    /\ lateTries' = [lateTries EXCEPT ![t] = 0]
    /\ lateNaps' = [lateNaps EXCEPT ![t] = 0]
    /\ waited' = [waited EXCEPT ![t] = FALSE]
    /\ UNCHANGED <<shared, counterProducer, counterConsumer, nIns, nRem, lastStopArg>>
    /\ UNCHANGED extra
    /\ UNCHANGED trade

\* the external controller calls strategy->setStop(arg)
SetStop(arg) ==
    /\ stop' = setStop(arg)
    /\ lastStopArg' = arg
    /\ lateTries' = [t \in Threads |-> 0]
    /\ lateNaps' = [t \in Threads |-> 0]
    /\ UNCHANGED <<strategy, maxSize, queue, queueLock, onProduceToEmpty, onConsumeFromFull>>
    /\ UNCHANGED <<pc, locals, ins, rem, sawStop, waited, nIns, nRem>>
    /\ UNCHANGED extra
    /\ UNCHANGED trade

\* the steps a thread takes inside a call it has started
Step(t) ==
    \/ Check(t)
    \/ Lock(t)
    \/ ProduceOp(t)
    \/ ConsumeOp(t)
    \/ SleepCall(t)
    \/ ProducePred(t)
    \/ ConsumePred(t)
    \/ Unlock(t)
    \/ Return(t)

Calls ==
    \/ \E p \in Producers : StartProduce(p)
    \/ \E c \in Consumers : StartConsume(c)
    \/ \E arg \in BOOLEAN : SetStop(arg)

NextNoSpurious ==
    \/ Calls
    \/ \E t \in Threads : Step(t)

Next ==
    \/ NextNoSpurious
    \/ \E t \in Threads : SpuriousWakeup(t)

Spec == Init /\ [][Next]_vars

\* fair scheduling of the threads, no spurious wakeups; callers and the
\* controller are free to stop calling
LiveSpec == Init /\ [][NextNoSpurious]_vars /\ \A t \in Threads : WF_vars(Step(t))

\* ------------------------------------------------------------ properties
InCall(t) == pc[t] \notin {"idle", "ret"}

\* C1: the queue's size stays within [0, maxSize], and the successful inserts
\* minus the successful removals equal the current size.
C1_SizeWithinCapacity ==
    /\ Len(queue) >= 0
    /\ Len(queue) <= maxSize
    /\ nIns - nRem = Len(queue)

C1_Witness == nIns = 3 /\ nRem = 1 /\ Len(queue) = maxSize

\* C2: a thread that is about to execute a queue primitive owns queueLock, so
\* no two threads are inside a primitive at once.
C2_QueueCallsUnderLock ==
    \A t \in Threads : pc[t] \in {"op", "pred"} => queueLock = t

C2_Witness ==
    \E t, u \in Threads :
        /\ t # u
        /\ pc[t] \in {"op", "pred"}
        /\ queueLock = t
        /\ pc[u] = "lock"

\* C3: a produce call adds its value at most once, and when it returns it has
\* added the value exactly once or has read stop as true.
C3_ProduceInsertsOnceOrStops ==
    \A p \in Producers :
        /\ ins[p] <= 1
        /\ pc[p] = "ret" => (ins[p] = 1 \/ sawStop[p])

C3_Witness ==
    \E p, q \in Producers :
        /\ pc[p] = "ret" /\ ins[p] = 1 /\ ~sawStop[p]
        /\ pc[q] = "ret" /\ ins[q] = 0 /\ sawStop[q]

\* C4: when a consume call returns it has removed exactly one element or has
\* read stop as true, whatever its local success flag held at the start.
C4_ConsumeRemovesOrStops ==
    \A c \in Consumers :
        pc[c] = "ret" => (rem[c] = 1 \/ sawStop[c])

\* C5: Wait-Signal: once a consumer is blocked and a producer has put a value
\* into the queue, some consumer that was blocked completes its consume with a
\* removed value (stop unset).
C5_BlockedConsumerIsWoken ==
    (strategy = "Wait" /\ queue # <<>> /\ \E c \in Consumers : pc[c] = "wait")
        ~> (stop \/ \E c \in Consumers : pc[c] = "ret" /\ waited[c] /\ rem[c] = 1)

\* C6: Wait-Signal: a producer blocked on a full queue completes its insert
\* once a consumer has made the queue non-full (stop unset).
C6_BlockedProducerIsWoken ==
    \A p \in Producers :
        (strategy = "Wait" /\ pc[p] = "wait" /\ ~pQueue_full(queue, maxSize))
            ~> (stop \/ (pc[p] = "ret" /\ ins[p] = 1))

\* C7: Wait-Signal: a thread blocked in produce or consume returns once stop
\* is set, without any further queue operation or spurious wakeup.
C7_WaitStopResponsive ==
    \A t \in Threads :
        (strategy = "Wait" /\ pc[t] = "wait" /\ stop) ~> (~stop \/ pc[t] = "ret")

\* C8: Spin and Sleep-Poll: with stop set, a call in progress makes at most one
\* more queue attempt (and at most one more sleep() call) and then returns.
C8_PollStopResponsive ==
    /\ [](strategy \in {"Spin", "Sleep"} =>
            \A t \in Threads : lateTries[t] <= 1 /\ lateNaps[t] <= 1)
    /\ \A t \in Threads :
         (strategy \in {"Spin", "Sleep"} /\ stop /\ InCall(t))
            ~> (~stop \/ ~InCall(t))

C8_Witness ==
    /\ strategy = "Sleep"
    /\ \E t \in Threads :
         pc[t] = "ret" /\ sawStop[t] /\ lateTries[t] = 1 /\ lateNaps[t] = 1

ProduceAttempt(p) ==
    \/ pc[p] = "op" /\ pc'[p] # "op"
    \/ pc[p] = "pred" /\ pc'[p] # "pred" /\ ~stop

C10_OverflowRejected ==
    [][\A p \in Producers :
         ProduceAttempt(p) =>
            IF Len(queue) >= maxSize
            THEN queue' = queue /\ nIns' = nIns
            ELSE queue' = Append(queue, value[p]) /\ nIns' = nIns + 1]_vars

C10_Witness ==
    /\ Len(queue) = maxSize
    /\ nIns = maxSize
    /\ nRem = 0
    /\ \E p \in Producers :
         \/ pc[p] = "unlock" /\ ~produced[p]
         \/ pc[p] \in {"sleep", "wait"}

\* a consumer's call of pQueue->consume returns in this step
ConsumeAttempt(c) ==
    \/ pc[c] = "op" /\ pc'[c] # "op"
    \/ pc[c] = "pred" /\ pc'[c] # "pred" /\ ~stop

\* the strategy was told that the consume failed
ConsumeFailed(c) ==
    \/ strategy = "Spin" /\ pc[c] = "unlock" /\ ~consumed[c]
    \/ strategy = "Sleep" /\ pc[c] = "sleep"
    \/ strategy = "Wait" /\ pc[c] = "wait"

\* C11: consume on an empty SafeQueue reports failure and touches nothing:
\* the contents and size of the queue, the count of removals and the caller's
\* out-parameter (which the inner consume would overwrite) are as before the
\* call, so the queue is in the state it would be in had the call not been made.
C11_UnderflowRejected ==
    [][\A c \in Consumers :
         ConsumeAttempt(c) /\ Queue_empty(queue) =>
            /\ queue' = queue
            /\ Queue_size(queue') = Queue_size(queue)
            /\ consumedValue'[c] = consumedValue[c]
            /\ nRem' = nRem
            /\ rem' = rem
            /\ ConsumeFailed(c)']_vars

\* a failed consume on the emptied queue, after an insert and a removal
C11_Witness ==
    /\ queue = <<>>
    /\ nIns >= 1
    /\ nRem = nIns
    /\ \E c \in Consumers : ConsumeFailed(c) /\ rem[c] = 0

\* number of occurrences of v in the container
Count(q, v) == Cardinality({i \in 1..Len(q) : q[i] = v})

\* C13: the value Queue::consume writes is the element it removes: on every
\* successful consume the returned value occurs once less in the queue than
\* before and every other value occurs as often as before.
C13_ReturnsWhatItRemoves ==
    [][\A c \in Consumers :
         ConsumeAttempt(c) /\ ~Queue_empty(queue) =>
            \A v \in 0..MaxProduce :
               Count(queue', v) =
                  IF v = consumedValue'[c] THEN Count(queue, v) - 1
                  ELSE Count(queue, v)]_vars

\* C15: full() is true exactly when size() >= maxSize and empty() exactly when
\* size() = 0, where size() is the number of accepted inserts minus the number
\* of successful removals.
C15_FullEmptyFollowSize ==
    /\ Queue_size(queue) = nIns - nRem
    /\ pQueue_full(queue, maxSize) <=> (nIns - nRem >= maxSize)
    /\ pQueue_empty(queue) <=> (nIns - nRem = 0)

\* the queue is full again after a removal
C15_Witness ==
    /\ pQueue_full(queue, maxSize)
    /\ ~pQueue_empty(queue)
    /\ nRem >= 1
    /\ maxSize = MaxCap

\* C16: the values returned by successful consumes together with the values
\* still in the queue are the values inserted, each once: no produced value is
\* returned twice and none is dropped.
C16_ValuesConserved ==
    \A v \in 0..MaxProduce :
       taken[v] + Count(queue, v) = IF v \in given THEN 1 ELSE 0

\* C17: a thread executing the sleep function of SleepProduceConsume does not
\* hold queueLock.
C17_SleepOutsideLock ==
    \A t \in Threads : pc[t] = "sleep" => queueLock # t

\* ------------------------------------------------ the queue object by itself
\* A SizeLimitedQueue(SafeQueue(Queue)) used by one caller, without a strategy.
MaxOps == 5

NoStrategy == "none"

\* the arguments the constructor is given: any int
CapArgs == -1..MaxCap

\* SizeLimitedQueue(pQueue, maxSize): stores its argument, whatever it is
SizeLimitedQueue_ctor(arg) == [ok |-> TRUE, maxSize |-> arg]

QueueInit ==
    /\ strategy = NoStrategy
    /\ chain = "SizeLimitedQueue"
    /\ \E arg \in CapArgs :
          LET o == SizeLimitedQueue_ctor(arg)
          IN o.ok /\ maxSize = o.maxSize
    /\ InitRest

\* produce(counterProducer++) called on the queue object
DirectProduce ==
    /\ Len(log) < MaxOps
    /\ LET r == pQueue_produce(queue, counterProducer, maxSize)
       IN /\ queue' = r.q
          /\ nIns' = IF r.ok THEN nIns + 1 ELSE nIns
          /\ given' = IF r.ok THEN given \cup {counterProducer} ELSE given
          /\ log' = Append(log, [op |-> "produce", ok |-> r.ok])
    /\ counterProducer' = counterProducer + 1
    /\ UNCHANGED <<strategy, maxSize, queueLock, stop, onProduceToEmpty, onConsumeFromFull>>
    /\ UNCHANGED <<pc, value, produced, consumed, consumedValue, counterConsumer>>
    /\ UNCHANGED <<ins, rem, sawStop, lateTries, lateNaps, waited, nRem, lastStopArg>>
    /\ UNCHANGED <<chain, taken>>

\* consume(value) called on the queue object
DirectConsume ==
    /\ Len(log) < MaxOps
    /\ LET r == pQueue_consume(queue, 0)
       IN /\ queue' = r.q
          /\ nRem' = IF r.ok THEN nRem + 1 ELSE nRem
          /\ taken' = IF r.ok THEN [taken EXCEPT ![r.value] = @ + 1] ELSE taken
          /\ log' = Append(log, [op |-> "consume", ok |-> r.ok])
    /\ UNCHANGED <<strategy, maxSize, queueLock, stop, onProduceToEmpty, onConsumeFromFull>>
    /\ UNCHANGED <<pc, locals>>
    /\ UNCHANGED <<ins, rem, sawStop, lateTries, lateNaps, waited, nIns, lastStopArg>>
    /\ UNCHANGED <<chain, given>>

QueueNext == DirectProduce \/ DirectConsume

QueueSpec == QueueInit /\ [][QueueNext]_vars

\* C12: no SizeLimitedQueue with maxSize <= 0 exists on which produce can be
\* called: whenever produce has been called on the queue, its maxSize is >= 1.
C12_NonPositiveCapacityRejected ==
    (\E i \in 1..Len(log) : log[i].op = "produce") => maxSize >= 1

\* the calls so far are n produce calls followed by n consume calls
RoundTrip(n) ==
    /\ Len(log) = 2 * n
    /\ \A i \in 1..n : log[i].op = "produce"
    /\ \A i \in (n + 1)..(2 * n) : log[i].op = "consume"

\* C14: n <= maxSize produce calls followed by n consume calls on an initially
\* empty SizeLimitedQueue(SafeQueue(Queue)) all return true and leave the queue
\* empty, of size 0.
C14_RoundTrip ==
    \A n \in 0..MaxCap :
       n <= maxSize /\ RoundTrip(n) =>
          /\ \A i \in 1..Len(log) : log[i].ok
          /\ pQueue_empty(queue)
          /\ Queue_size(queue) = 0

\* the round trip that fills the largest queue
C14_Witness ==
    /\ maxSize = MaxCap
    /\ RoundTrip(MaxCap)
    /\ nIns = MaxCap
    /\ nRem = MaxCap

\* ------------------------------------------------------ the tester's set-up
\* ProducerConsumerTesterBuilder: a SleepProduceConsume bound to the tester's
\* requestsQueue, a Queue without decorators; test() runs one producer thread
\* and one consumer thread and calls setStop(true) at the end.
TesterProducers == {1}

TesterThreads == TesterProducers \cup Consumers

\* the program has executed an undefined operation
Undefined == \E t \in Threads : pc[t] = "ub"

\* maxSize belongs to no object of this set-up
TesterInit ==
    /\ strategy = "Sleep"
    /\ chain = "Queue"
    /\ maxSize = 0
    /\ InitRest

\* Queue::produce and Queue::consume never return false, so sleep() is not
\* reached in this set-up
TesterStep(t) ==
    \/ Check(t)
    \/ Lock(t)
    \/ Unlock(t)
    \/ ProduceOp(t)
    \/ ConsumeOp(t)
    \/ Return(t)

\* A thread that has passed its loop test still makes its call after the
\* tester has set stop. Nothing is followed past an undefined operation.
TesterNext ==
    \/ \E p \in TesterProducers : ~Undefined /\ StartProduce(p)
    \/ \E c \in Consumers : ~Undefined /\ StartConsume(c)
    \/ ~Undefined /\ SetStop(TRUE)
    \/ \E t \in TesterThreads : ~Undefined /\ TesterStep(t)

TesterSpec == TesterInit /\ [][TesterNext]_vars

\* C18: in the tester's set-up Queue::consume is never executed on an empty
\* container: a consume attempt that finds the queue empty is reported to the
\* strategy as a failure, which then sleeps and retries.
C18_NoUnderflowInTester ==
    [][\A c \in Consumers :
         ConsumeAttempt(c) /\ Queue_empty(queue) =>
            ConsumeFailed(c)' /\ ~Undefined']_vars

\* C19: the tester's assertion pc.consume() != counterConsumer++ holds for
\* every consume call that returns before stop is set: the value returned by
\* the k-th call (k from 0) differs from k.
C19_AssertionHolds ==
    \A c \in Consumers :
       pc[c] = "ret" /\ ~stop => consumedValue[c] # counterConsumer - 1

====
